---- MODULE Spec2Model ----
(***************************************************************************)
(* State-machine model of the App component of src/src/App.jsx: the React  *)
(* state of the component, its event handlers, and the asynchronous calls  *)
(* (fetch, FileReader) that the handlers leave in flight.                   *)
(*                                                                         *)
(* Text typed by the user is a sequence of one-character strings, so that  *)
(* String.prototype.trim and startsWith are computed, not assumed.  null   *)
(* and the empty string are both the empty sequence (both are falsy in     *)
(* every test the code makes); a null id is 0 (falsy as well).             *)
(***************************************************************************)
EXTENDS Bags, FiniteSets, Integers, Sequences, TLC

(***************************************************************************)
(* Bounds of the model.                                                    *)
(***************************************************************************)
MaxCalls == 2
MaxUsers == 2
MaxPosts == 2
FetchCap == 2

(***************************************************************************)
(* Strings.                                                                *)
(***************************************************************************)
IsSpace(c) == c = " "

RECURSIVE TrimStart(_)
TrimStart(s) ==
  IF s # <<>> /\ IsSpace(Head(s)) THEN TrimStart(Tail(s)) ELSE s

RECURSIVE TrimEnd(_)
TrimEnd(s) ==
  IF s # <<>> /\ IsSpace(s[Len(s)]) THEN TrimEnd(SubSeq(s, 1, Len(s) - 1)) ELSE s

Trim(s) == TrimEnd(TrimStart(s))

StartsWith(s, p) == Len(s) >= Len(p) /\ SubSeq(s, 1, Len(p)) = p

EncodeChar(c) == IF c = " " THEN "%20" ELSE c

EncodeURIComponent(s) == [i \in 1..Len(s) |-> EncodeChar(s[i])]

\* a filter that keeps the user with the id instead of dropping it
FilterOnlyId(s, id) == SelectSeq(s, LAMBDA u : u.id = id)

FilterOutId(s, id) == SelectSeq(s, LAMBDA u : u.id # id)

\* a slice that keeps the whole array
TakeAll(s, n) == s

Take(s, n) == SubSeq(s, 1, IF Len(s) < n THEN Len(s) ELSE n)

(***************************************************************************)
(* Program constants.                                                      *)
(***************************************************************************)
MaxFileSize == 5 * 1024 * 1024
UsersShown == 9
ImagePrefix == <<"i", "m", "a", "g", "e", "/">>

(***************************************************************************)
(* Values supplied by the environment: what the user types, the files the  *)
(* user picks, what the servers answer, what the clock reads.              *)
(***************************************************************************)
NameInputs == {<<" ">>, <<" ", "a">>}
EmailInputs == {<<"b">>}
TitleInputs == {<<" ">>, <<"t", " ">>}
BodyInputs == {<<"x">>}

Kb == 1024
PngType == <<"i", "m", "a", "g", "e", "/", "p", "n", "g">>
TxtType == <<"t", "e", "x", "t", "/", "p", "l", "a", "i", "n">>
BareImageType == <<"i", "m", "a", "g", "e">>
File(n, t, sz) == [name |-> n, type |-> t, size |-> sz]
Files ==
  { File("exact.png", PngType, 5 * Kb * Kb),
    File("big.png", PngType, 5 * Kb * Kb + 1),
    File("note.txt", TxtType, 10),
    File("big.txt", TxtType, 5 * Kb * Kb + 1),
    File("image", BareImageType, 10) }

ServerIds == {1, 2}
Timestamps == {9}

\* user records of the mock API: what GET lists, what POST and PUT answer
U(i, n) == [id |-> i, name |-> <<n>>, email |-> <<"e">>, avatar |-> <<>>]
ServerUserLists == {<<>>, <<U(1, "u"), U(2, "u")>>}
CreatedRecords == {U(i, "n") : i \in ServerIds}
\* a collection of n users; the server may hold more than the page shows
Listed(n) == [i \in 1..n |-> U(i, "u")]
LongUserLists == {Listed(n) : n \in {0, 2, 9, 10, 11}}
UpdatedRecords(id) == {U(id, "m")}

\* records of the placeholder API
Post(id, uid, t, b) == [id |-> id, userId |-> uid, title |-> t, body |-> b]
PostLists(uid) == {<<>>, <<Post(1, uid, <<"p">>, <<"q">>)>>}
CreatedPosts(np) == {Post(101, np.userId, np.title, np.body)}
Album(id, uid) == [id |-> id, userId |-> uid, title |-> <<"l">>]
AlbumLists(uid) == {<<>>, <<Album(1, uid), Album(2, uid)>>}
PhotoLists == {<<[thumbnailUrl |-> <<"thumb">>]>>}

Request(m, api, arg) == [m |-> m, api |-> api, arg |-> arg]

VARIABLES
  users, selectedUser, posts, loadingUsers, loadingPosts, error,
  name, email, avatarPreview, avatarFile, editId, formLoading,
  showPostForm, postTitle, postBody, postLoading,
  albums, loadingAlbums, activeTab,
  calls,        \* bag of the asynchronous calls in flight, each with what it captured
  last,         \* the handler step taken last and what it was given
  albumFetches, \* album-list fetches issued since the modal was opened (saturating)
  darkMode,     \* the theme shown
  stored,       \* localStorage item "darkMode": "none" when absent, else its string
  prefersDark,  \* what matchMedia("(prefers-color-scheme: dark)").matches reads
  chosen        \* the theme the user chose last with the toggle, "none" before

listVars == <<users, loadingUsers>>
formVars == <<name, email, avatarPreview, avatarFile, editId, formLoading>>
modalVars == <<selectedUser, posts, loadingPosts, albums, loadingAlbums, activeTab, albumFetches>>
postFormVars == <<showPostForm, postTitle, postBody, postLoading>>
themeVars == <<darkMode, stored, prefersDark, chosen>>
vars == <<listVars, formVars, modalVars, postFormVars, error, calls, last, themeVars>>

Spawn(c) == calls (+) SetToBag({c})
Finish(c) == calls (-) SetToBag({c})
InFlight == BagToSet(calls)
Room == BagCardinality(calls) < MaxCalls
Step(op, out, val) == [op |-> op, out |-> out, val |-> IF out \in {"ok", ""} THEN val ELSE <<>>]
Ui == Step("ui", "", <<>>)

(***************************************************************************)
(* Avatar helpers.                                                         *)
(***************************************************************************)
\* a blank test that does not trim
IsBlankNoTrim(s) == s = <<>>

IsBlank(s) == Trim(s) = <<>>

GenerateAvatarUrl(n) ==
  IF IsBlank(n) THEN <<>>
  ELSE <<"ui-avatars.com/api/?name=">> \o EncodeURIComponent(Trim(n))

DataURL(file) == <<"data:", file.name>>

Or(a, b) == IF a # <<>> THEN a ELSE b

IsImage(file) == StartsWith(file.type, ImagePrefix)
\* a size test that also refuses a file of exactly the limit
TooBigInclusive(file) == file.size >= MaxFileSize

TooBig(file) == file.size > MaxFileSize

ReaderCall(file) == [h |-> "FileReader", file |-> file, reqs |-> {}]

\* processFile(file); files = <<>> is the call with no file
ProcessFile(files) ==
  /\ last' = Step("processFile", "", files)
  /\ UNCHANGED <<listVars, formVars, modalVars, postFormVars>>
  /\ IF files = <<>> THEN UNCHANGED <<error, calls>>
     ELSE IF ~IsImage(files[1]) THEN
       /\ error' = "Please select a valid image."
       /\ UNCHANGED calls
     ELSE IF TooBig(files[1]) THEN
       /\ error' = "Image must be < 5 MB."
       /\ UNCHANGED calls
     ELSE
       /\ Room
       /\ calls' = Spawn(ReaderCall(files[1]))
       /\ UNCHANGED error
  /\ UNCHANGED themeVars

\* reader.onload / reader.onerror
FileReaderSettle(c, out) ==
  /\ c \in InFlight /\ c.h = "FileReader"
  /\ calls' = Finish(c)
  /\ last' = Step("FileReader", out, <<>>)
  /\ UNCHANGED <<listVars, modalVars, postFormVars, name, email, editId, formLoading>>
  /\ IF out = "ok" THEN
       /\ avatarPreview' = DataURL(c.file)
       /\ avatarFile' = <<c.file>>
       /\ error' = ""
     ELSE
       /\ error' = "Failed to read file."
       /\ UNCHANGED <<avatarPreview, avatarFile>>
  /\ UNCHANGED themeVars

\* the Remove button of the preview
RemoveAvatar ==
  /\ avatarPreview # <<>>
  /\ avatarPreview' = <<>>
  /\ avatarFile' = <<>>
  /\ last' = Ui
  /\ UNCHANGED <<listVars, modalVars, postFormVars, name, email, editId, formLoading, error, calls>>
  /\ UNCHANGED themeVars

\* finally { setLoading(false) }: the flag of a handler once its await settled
\* a flag that is lowered on the success path only
SettledLoadingOnSuccess(out) == out # "ok"

SettledLoading(out) == FALSE

\* [...prev, rec]
AppendLast(rec, prev) == prev \o <<rec>>

\* [rec, ...prev]
Prepend(rec, prev) == <<rec>> \o prev

(***************************************************************************)
(* The users list: loadUsers, and the mount effect that calls it.          *)
(***************************************************************************)
UsersCall == [h |-> "loadUsers", reqs |-> {Request("GET", "USERS", 0)}]

\* the part of loadUsers after the await: try / catch / finally
LoadUsersSettle(c, out, data) ==
  /\ c \in InFlight /\ c.h = "loadUsers"
  /\ calls' = Finish(c)
  /\ last' = Step("loadUsers", out, data)
  /\ IF out = "ok" THEN users' = Take(data, UsersShown) /\ UNCHANGED error
     ELSE error' = "Failed to load users." /\ UNCHANGED users
  /\ loadingUsers' = SettledLoading(out)
  /\ UNCHANGED <<formVars, modalVars, postFormVars>>
  /\ UNCHANGED themeVars

(***************************************************************************)
(* The user form: typing, submit (create / update), edit, cancel, delete.  *)
(***************************************************************************)
SetName(v) ==
  /\ ~formLoading
  /\ name' = v
  /\ last' = Ui
  /\ UNCHANGED <<listVars, modalVars, postFormVars, email, avatarPreview, avatarFile, editId, formLoading, error, calls>>
  /\ UNCHANGED themeVars

SetEmail(v) ==
  /\ ~formLoading
  /\ email' = v
  /\ last' = Ui
  /\ UNCHANGED <<listVars, modalVars, postFormVars, name, avatarPreview, avatarFile, editId, formLoading, error, calls>>
  /\ UNCHANGED themeVars

Payload(now) ==
  [ name |-> Trim(name), email |-> Trim(email),
    avatar |-> Or(avatarPreview, GenerateAvatarUrl(Trim(name))),
    id |-> IF editId # 0 THEN editId ELSE now ]

SubmitCall(p) ==
  [ h |-> "handleSubmit", editId |-> editId, payload |-> p,
    reqs |-> {IF editId # 0 THEN Request("PUT", "USERS", editId)
                             ELSE Request("POST", "USERS", 0)} ]

SubmitInvalid == IsBlank(name) \/ IsBlank(email)

\* handleSubmit up to its await; now is what Date.now() reads
HandleSubmit(now) ==
  /\ ~formLoading
  /\ IF SubmitInvalid THEN
       /\ error' = "Name and email required"
       /\ last' = Step("handleSubmit", "invalid", <<>>)
       /\ UNCHANGED <<listVars, formVars, modalVars, postFormVars, calls>>
     ELSE
       /\ Room
       /\ editId = 0 => Len(users) < MaxUsers
       /\ formLoading' = TRUE
       /\ calls' = Spawn(SubmitCall(Payload(now)))
       /\ last' = Step("handleSubmit", "sent", <<>>)
       /\ UNCHANGED <<listVars, modalVars, postFormVars, name, email, avatarPreview, avatarFile, editId, error>>
  /\ UNCHANGED themeVars

\* an update that moves the updated record to the front
MoveToFront(s, id, rec) == <<rec>> \o FilterOutId(s, id)

\* prev.map((u) => (u.id === editId ? updated : u))
ReplaceById(s, id, rec) == [i \in 1..Len(s) |-> IF s[i].id = id THEN rec ELSE s[i]]

\* a handleSubmit that resets the form whether or not the request succeeded
HandleSubmitSettleResetAlways(c, out, rec) ==
  /\ c \in InFlight /\ c.h = "handleSubmit"
  /\ calls' = Finish(c)
  /\ last' = Step("handleSubmit", out, <<rec>>)
  /\ users' = IF out # "ok" THEN users
              ELSE IF c.editId # 0 THEN [i \in 1..Len(users) |-> IF users[i].id = c.editId THEN rec ELSE users[i]]
              ELSE <<rec>> \o users
  /\ name' = <<>>
  /\ email' = <<>>
  /\ avatarPreview' = <<>>
  /\ avatarFile' = <<>>
  /\ editId' = 0
  /\ error' = IF out = "ok" THEN "" ELSE "Operation failed."
  /\ formLoading' = FALSE
  /\ UNCHANGED <<loadingUsers, modalVars, postFormVars>>
  /\ UNCHANGED themeVars

\* the part of handleSubmit after the await; rec is the record the server answers
HandleSubmitSettle(c, out, rec) ==
  /\ c \in InFlight /\ c.h = "handleSubmit"
  /\ calls' = Finish(c)
  /\ last' = Step("handleSubmit", out, <<rec>>)
  /\ IF out = "ok" THEN
       /\ users' = IF c.editId # 0 THEN ReplaceById(users, c.editId, rec)
                                   ELSE Prepend(rec, users)
       \* resetForm
       /\ name' = <<>>
       /\ email' = <<>>
       /\ avatarPreview' = <<>>
       /\ avatarFile' = <<>>
       /\ editId' = 0
       /\ error' = ""
     ELSE
       /\ error' = "Operation failed."
       /\ UNCHANGED <<users, name, email, avatarPreview, avatarFile, editId>>
  /\ formLoading' = SettledLoading(out)
  /\ UNCHANGED <<loadingUsers, modalVars, postFormVars>>
  /\ UNCHANGED themeVars

Shown(user) == ~loadingUsers /\ \E i \in 1..Len(users) : users[i] = user

StartEdit(user) ==
  /\ Shown(user) /\ ~formLoading
  /\ editId' = user.id
  /\ name' = user.name
  /\ email' = user.email
  /\ avatarPreview' = Or(user.avatar, GenerateAvatarUrl(user.name))
  /\ avatarFile' = <<>>
  /\ last' = Ui
  /\ UNCHANGED <<listVars, modalVars, postFormVars, formLoading, error, calls>>
  /\ UNCHANGED themeVars

CancelEdit ==
  /\ editId # 0 /\ ~formLoading
  \* resetForm
  /\ name' = <<>>
  /\ email' = <<>>
  /\ avatarPreview' = <<>>
  /\ avatarFile' = <<>>
  /\ editId' = 0
  /\ error' = ""
  /\ last' = Ui
  /\ UNCHANGED <<listVars, modalVars, postFormVars, formLoading, calls>>
  /\ UNCHANGED themeVars

DeleteCall(id) == [h |-> "handleDelete", id |-> id, reqs |-> {Request("DELETE", "USERS", id)}]

\* a Delete button that is not disabled while formLoading
HandleDeleteAnytime(user, confirmed) ==
  /\ Shown(user)
  /\ IF ~confirmed THEN
       /\ last' = Step("handleDelete", "declined", <<>>)
       /\ UNCHANGED <<listVars, formVars, modalVars, postFormVars, error, calls>>
     ELSE
       /\ BagCardinality(calls) < MaxCalls
       /\ formLoading' = TRUE
       /\ calls' = calls (+) SetToBag({[h |-> "handleDelete", id |-> user.id,
                                        reqs |-> {[m |-> "DELETE", api |-> "USERS", arg |-> user.id]}]})
       /\ last' = Step("handleDelete", "sent", <<>>)
       /\ UNCHANGED <<listVars, modalVars, postFormVars, name, email, avatarPreview, avatarFile, editId, error>>
  /\ UNCHANGED themeVars

\* handleDelete up to its await; confirmed is what window.confirm answers
HandleDelete(user, confirmed) ==
  /\ Shown(user) /\ ~formLoading
  /\ IF ~confirmed THEN
       /\ last' = Step("handleDelete", "declined", <<>>)
       /\ UNCHANGED <<listVars, formVars, modalVars, postFormVars, error, calls>>
     ELSE
       /\ Room
       /\ formLoading' = TRUE
       /\ calls' = Spawn(DeleteCall(user.id))
       /\ last' = Step("handleDelete", "sent", <<>>)
       /\ UNCHANGED <<listVars, modalVars, postFormVars, name, email, avatarPreview, avatarFile, editId, error>>
  /\ UNCHANGED themeVars

\* The fetch of handleDelete rejects only when the network fails: its response
\* is not inspected, so every response, OK or not, takes the try branch.
DeleteThrows(out) == out = "neterr"

\* the part of handleDelete after the await
HandleDeleteSettle(c, out) ==
  /\ c \in InFlight /\ c.h = "handleDelete"
  /\ calls' = Finish(c)
  /\ last' = Step("handleDelete", out, <<c.id>>)
  /\ IF DeleteThrows(out) THEN error' = "Delete failed." /\ UNCHANGED users
     ELSE users' = FilterOutId(users, c.id) /\ UNCHANGED error
  /\ formLoading' = SettledLoading(out)
  /\ UNCHANGED <<loadingUsers, modalVars, postFormVars, name, email, avatarPreview, avatarFile, editId>>
  /\ UNCHANGED themeVars

(***************************************************************************)
(* The modal: posts and albums of the selected user.                       *)
(***************************************************************************)
PostsCall(uid) == [h |-> "loadPosts", userId |-> uid, reqs |-> {Request("GET", "POSTS", uid)}]

\* a loadAlbums that asks for photos without waiting for the album list
AlbumsCallEager(uid) ==
  [ h |-> "loadAlbums", userId |-> uid, pc |-> "list", albumsData |-> <<>>,
    thumbs |-> <<>>, reqs |-> {Request("GET", "ALBUMS", uid), Request("GET", "PHOTOS", uid)} ]

\* loadAlbums issues the album list fetch alone
AlbumsCall(uid) ==
  [ h |-> "loadAlbums", userId |-> uid, pc |-> "list", albumsData |-> <<>>,
    thumbs |-> <<>>, reqs |-> {Request("GET", "ALBUMS", uid)} ]

Bump(n) == IF n < FetchCap THEN n + 1 ELSE n

\* an openUserPosts that keeps the albums of the session before
OpenUserPostsKeepAlbums(user) ==
  /\ Shown(user) /\ Room
  /\ selectedUser' = <<user>>
  /\ posts' = <<>>
  /\ showPostForm' = FALSE
  /\ activeTab' = "posts"
  /\ loadingPosts' = TRUE
  /\ error' = ""
  /\ calls' = Spawn(PostsCall(user.id))
  /\ albumFetches' = 0
  /\ last' = Step("openUserPosts", "", <<user>>)
  /\ UNCHANGED <<listVars, formVars, loadingAlbums, postTitle, postBody, postLoading, albums>>
  /\ UNCHANGED themeVars

OpenUserPosts(user) ==
  /\ Shown(user) /\ Room
  /\ selectedUser' = <<user>>
  /\ posts' = <<>>
  /\ albums' = <<>>
  /\ showPostForm' = FALSE
  /\ activeTab' = "posts"
  \* loadPosts(user.id) up to its await
  /\ loadingPosts' = TRUE
  /\ error' = ""
  /\ calls' = Spawn(PostsCall(user.id))
  /\ albumFetches' = 0
  /\ last' = Step("openUserPosts", "", <<user>>)
  /\ UNCHANGED <<listVars, formVars, loadingAlbums, postTitle, postBody, postLoading>>
  /\ UNCHANGED themeVars

\* a closePosts that forgets setAlbums([])
ClosePostsKeepAlbums ==
  /\ selectedUser # <<>>
  /\ selectedUser' = <<>>
  /\ posts' = <<>>
  /\ showPostForm' = FALSE
  /\ last' = Step("closePosts", "", <<>>)
  /\ UNCHANGED <<listVars, formVars, loadingPosts, loadingAlbums, activeTab, albumFetches,
                 postTitle, postBody, postLoading, error, calls, albums>>
  /\ UNCHANGED themeVars

ClosePosts ==
  /\ selectedUser # <<>>
  /\ selectedUser' = <<>>
  /\ posts' = <<>>
  /\ albums' = <<>>
  /\ showPostForm' = FALSE
  /\ last' = Step("closePosts", "", <<>>)
  /\ UNCHANGED <<listVars, formVars, loadingPosts, loadingAlbums, activeTab, albumFetches,
                 postTitle, postBody, postLoading, error, calls>>
  /\ UNCHANGED themeVars

\* onClick of the Posts tab
ClickPostsTab ==
  /\ selectedUser # <<>>
  /\ activeTab' = "posts"
  /\ last' = Step("postsTab", "", <<>>)
  /\ IF Len(posts) = 0 THEN
       /\ Room
       /\ loadingPosts' = TRUE
       /\ error' = ""
       /\ calls' = Spawn(PostsCall(selectedUser[1].id))
     ELSE UNCHANGED <<loadingPosts, error, calls>>
  /\ UNCHANGED <<listVars, formVars, postFormVars, selectedUser, posts, albums, loadingAlbums, albumFetches>>
  /\ UNCHANGED themeVars

\* onClick of the Albums tab
ClickAlbumsTab ==
  /\ selectedUser # <<>>
  /\ activeTab' = "albums"
  /\ last' = Step("albumsTab", "", <<>>)
  /\ IF Len(albums) = 0 THEN
       /\ Room
       /\ loadingAlbums' = TRUE
       /\ error' = ""
       /\ calls' = Spawn(AlbumsCall(selectedUser[1].id))
       /\ albumFetches' = Bump(albumFetches)
     ELSE UNCHANGED <<loadingAlbums, error, calls, albumFetches>>
  /\ UNCHANGED <<listVars, formVars, postFormVars, selectedUser, posts, albums, loadingPosts>>
  /\ UNCHANGED themeVars

\* the part of loadPosts after the await
LoadPostsSettle(c, out, data) ==
  /\ c \in InFlight /\ c.h = "loadPosts"
  /\ calls' = Finish(c)
  /\ last' = Step("loadPosts", out, data)
  /\ IF out = "ok" THEN posts' = data /\ UNCHANGED error
     ELSE error' = "Failed to load posts." /\ UNCHANGED posts
  /\ loadingPosts' = SettledLoading(out)
  /\ UNCHANGED <<listVars, formVars, postFormVars, selectedUser, albums, loadingAlbums, activeTab, albumFetches>>
  /\ UNCHANGED themeVars

PhotoRequests(albumsData) ==
  {Request("GET", "PHOTOS", albumsData[i].id) : i \in 1..Len(albumsData)}

\* the album list arrives: on success every photo fetch is issued at once
\* (Promise.all over albumsData.map), and an empty list completes the load
LoadAlbumsListSettle(c, out, data) ==
  /\ c \in InFlight /\ c.h = "loadAlbums" /\ c.pc = "list"
  /\ last' = Step("loadAlbums.list", out, data)
  /\ IF out # "ok" THEN
       /\ calls' = Finish(c)
       /\ error' = "Failed to load albums."
       /\ loadingAlbums' = SettledLoading(out)
       /\ UNCHANGED albums
     ELSE IF data = <<>> THEN
       /\ calls' = Finish(c)
       /\ albums' = <<>>
       /\ loadingAlbums' = SettledLoading(out)
       /\ UNCHANGED error
     ELSE
       /\ calls' = Finish(c) (+) SetToBag({[c EXCEPT !.pc = "photos", !.albumsData = data,
                                                     !.thumbs = [i \in 1..Len(data) |-> <<>>],
                                                     !.reqs = PhotoRequests(data)]})
       /\ UNCHANGED <<albums, loadingAlbums, error>>
  /\ UNCHANGED <<listVars, formVars, postFormVars, selectedUser, posts, loadingPosts, activeTab, albumFetches>>
  /\ UNCHANGED themeVars

\* photoRes.ok is not inspected before photoRes.json(): a photo fetch throws
\* when the network fails or when the body of the response is not JSON
PhotoThrows(out, parses) == out = "neterr" \/ ~parses

\* photos[0]?.thumbnailUrl || null; the JSON body of a rejected request is {}
Thumbnail(out, photos) ==
  IF out = "ok" /\ photos # <<>> THEN photos[1].thumbnailUrl ELSE <<>>

WithThumb(a, t) == [id |-> a.id, userId |-> a.userId, title |-> a.title, thumbnailUrl |-> t]

\* one photo response arrives for the album at index i
LoadAlbumsPhotoSettle(c, i, out, parses, photos) ==
  /\ c \in InFlight /\ c.h = "loadAlbums" /\ c.pc = "photos"
  /\ i \in 1..Len(c.albumsData)
  /\ Request("GET", "PHOTOS", c.albumsData[i].id) \in c.reqs
  /\ last' = Step("loadAlbums.photo", IF PhotoThrows(out, parses) THEN "threw" ELSE out, <<>>)
  /\ LET rest == c.reqs \ {Request("GET", "PHOTOS", c.albumsData[i].id)}
         thumbs == [c.thumbs EXCEPT ![i] = Thumbnail(out, photos)]
     IN IF PhotoThrows(out, parses) THEN
          \* Promise.all rejects; the other responses are dropped when they arrive
          /\ calls' = Finish(c)
          /\ error' = "Failed to load albums."
          /\ loadingAlbums' = SettledLoading(out)
          /\ UNCHANGED albums
        ELSE IF rest = {} THEN
          /\ calls' = Finish(c)
          /\ albums' = [k \in 1..Len(c.albumsData) |-> WithThumb(c.albumsData[k], thumbs[k])]
          /\ loadingAlbums' = SettledLoading(out)
          /\ UNCHANGED error
        ELSE
          /\ calls' = Finish(c) (+) SetToBag({[c EXCEPT !.thumbs = thumbs, !.reqs = rest]})
          /\ UNCHANGED <<albums, loadingAlbums, error>>
  /\ UNCHANGED <<listVars, formVars, postFormVars, selectedUser, posts, loadingPosts, activeTab, albumFetches>>
  /\ UNCHANGED themeVars

(***************************************************************************)
(* The new-post form of the modal.                                         *)
(***************************************************************************)
PostsTabShown == selectedUser # <<>> /\ activeTab = "posts"
PostFormEnabled == PostsTabShown /\ showPostForm /\ ~postLoading

ShowPostForm ==
  /\ PostsTabShown
  /\ showPostForm' = TRUE
  /\ last' = Ui
  /\ UNCHANGED <<listVars, formVars, modalVars, postTitle, postBody, postLoading, error, calls>>
  /\ UNCHANGED themeVars

SetPostTitle(v) ==
  /\ PostFormEnabled
  /\ postTitle' = v
  /\ last' = Ui
  /\ UNCHANGED <<listVars, formVars, modalVars, showPostForm, postBody, postLoading, error, calls>>
  /\ UNCHANGED themeVars

SetPostBody(v) ==
  /\ PostFormEnabled
  /\ postBody' = v
  /\ last' = Ui
  /\ UNCHANGED <<listVars, formVars, modalVars, showPostForm, postTitle, postLoading, error, calls>>
  /\ UNCHANGED themeVars

CancelPostForm ==
  /\ PostFormEnabled
  /\ showPostForm' = FALSE
  /\ postTitle' = <<>>
  /\ postBody' = <<>>
  /\ last' = Ui
  /\ UNCHANGED <<listVars, formVars, modalVars, postLoading, error, calls>>
  /\ UNCHANGED themeVars

NewPost == [title |-> Trim(postTitle), body |-> Trim(postBody), userId |-> selectedUser[1].id]

CreatePostCall(np) == [h |-> "createPost", newPost |-> np, reqs |-> {Request("POST", "POSTS", 0)}]

PostInvalid == IsBlank(postTitle) \/ IsBlank(postBody)

\* createPost up to its await
CreatePost ==
  /\ PostFormEnabled
  /\ IF PostInvalid THEN
       /\ error' = "Title and body are required"
       /\ last' = Step("createPost", "invalid", <<>>)
       /\ UNCHANGED <<listVars, formVars, modalVars, postFormVars, calls>>
     ELSE
       /\ Room
       /\ Len(posts) < MaxPosts
       /\ postLoading' = TRUE
       /\ calls' = Spawn(CreatePostCall(NewPost))
       /\ last' = Step("createPost", "sent", <<>>)
       /\ UNCHANGED <<listVars, formVars, modalVars, showPostForm, postTitle, postBody, error>>
  /\ UNCHANGED themeVars

\* a stored post that keeps the id the server gave
StampedKeepId(created, now) == created

\* { ...created, id: Date.now() }
Stamped(created, now) == [created EXCEPT !.id = now]

\* the part of createPost after the await; now is what Date.now() reads
CreatePostSettle(c, out, created, now) ==
  /\ c \in InFlight /\ c.h = "createPost"
  /\ calls' = Finish(c)
  /\ last' = Step("createPost", out, <<created>>)
  /\ IF out = "ok" THEN
       /\ posts' = Prepend(Stamped(created, now), posts)
       /\ postTitle' = <<>>
       /\ postBody' = <<>>
       /\ showPostForm' = FALSE
       /\ error' = ""
     ELSE
       /\ error' = "Failed to create post."
       /\ UNCHANGED <<posts, postTitle, postBody, showPostForm>>
  /\ postLoading' = SettledLoading(out)
  /\ UNCHANGED <<listVars, formVars, selectedUser, loadingPosts, albums, loadingAlbums, activeTab, albumFetches>>
  /\ UNCHANGED themeVars

(***************************************************************************)
(* The theme: the initial darkMode, toggleDarkMode, a reload of the page.  *)
(***************************************************************************)
\* Boolean.prototype.toString
BoolString(b) == IF b THEN "true" ELSE "false"

\* the initialiser of the darkMode state
InitialDarkMode(item, prefers) == item = "true" \/ prefers

ToggleDarkMode ==
  /\ darkMode' = ~darkMode
  /\ stored' = BoolString(~darkMode)
  /\ chosen' = BoolString(~darkMode)
  /\ last' = Step("toggleDarkMode", "", <<>>)
  /\ UNCHANGED <<listVars, formVars, modalVars, postFormVars, error, calls, prefersDark>>

\* the user changes the colour scheme of the system; the page does not listen
SystemPreference(b) ==
  /\ prefersDark # b
  /\ prefersDark' = b
  /\ last' = Step("system", "", <<>>)
  /\ UNCHANGED <<listVars, formVars, modalVars, postFormVars, error, calls, darkMode, stored, chosen>>

\* the page is loaded again: every state is initialised anew, the requests of
\* the page before are gone, browser storage is kept, the mount effect runs
Reload ==
  /\ users' = <<>>
  /\ selectedUser' = <<>>
  /\ posts' = <<>>
  /\ loadingUsers' = TRUE
  /\ loadingPosts' = FALSE
  /\ error' = ""
  /\ name' = <<>>
  /\ email' = <<>>
  /\ avatarPreview' = <<>>
  /\ avatarFile' = <<>>
  /\ editId' = 0
  /\ formLoading' = FALSE
  /\ showPostForm' = FALSE
  /\ postTitle' = <<>>
  /\ postBody' = <<>>
  /\ postLoading' = FALSE
  /\ albums' = <<>>
  /\ loadingAlbums' = FALSE
  /\ activeTab' = "posts"
  /\ calls' = SetToBag({UsersCall})
  /\ albumFetches' = 0
  /\ darkMode' = InitialDarkMode(stored, prefersDark)
  /\ last' = Step("reload", "", <<>>)
  /\ UNCHANGED <<stored, prefersDark, chosen>>

(***************************************************************************)
(* The component after its first render and its mount effect, which calls  *)
(* loadUsers, in a browser that stores nothing yet and prefers light.      *)
(***************************************************************************)
Init ==
  /\ users = <<>>
  /\ selectedUser = <<>>
  /\ posts = <<>>
  /\ loadingUsers = TRUE
  /\ loadingPosts = FALSE
  /\ error = ""
  /\ name = <<>>
  /\ email = <<>>
  /\ avatarPreview = <<>>
  /\ avatarFile = <<>>
  /\ editId = 0
  /\ formLoading = FALSE
  /\ showPostForm = FALSE
  /\ postTitle = <<>>
  /\ postBody = <<>>
  /\ postLoading = FALSE
  /\ albums = <<>>
  /\ loadingAlbums = FALSE
  /\ activeTab = "posts"
  /\ calls = SetToBag({UsersCall})
  /\ last = Step("mount", "", <<>>)
  /\ albumFetches = 0
  /\ stored = "none"
  /\ prefersDark = FALSE
  /\ darkMode = InitialDarkMode("none", FALSE)
  /\ chosen = "none"

\* a fetch resolves with an OK response, resolves with a rejected (non-OK) one,
\* or rejects because the network failed
NetOutcomes == {"ok", "neterr", "notok"}
DeleteOutcomes == {"ok", "neterr", "notok"}
ReadOutcomes == {"ok", "error"}

ListNext(lists) ==
  \/ \E c \in InFlight, out \in NetOutcomes, data \in lists : LoadUsersSettle(c, out, data)

FileNext ==
  \/ \E files \in {<<>>} \cup {<<f>> : f \in Files} : ProcessFile(files)
  \/ \E c \in InFlight, out \in ReadOutcomes : FileReaderSettle(c, out)
  \/ RemoveAvatar

TypeNext ==
  \/ \E v \in NameInputs : SetName(v)
  \/ \E v \in EmailInputs : SetEmail(v)

SubmitNext ==
  \/ \E now \in Timestamps : HandleSubmit(now)
  \/ \E c \in InFlight, out \in NetOutcomes :
       \E rec \in IF c.h = "handleSubmit" /\ c.editId # 0 THEN UpdatedRecords(c.editId) ELSE CreatedRecords :
         HandleSubmitSettle(c, out, rec)

EditNext ==
  \/ \E i \in 1..Len(users) : StartEdit(users[i])
  \/ CancelEdit

DeleteNext ==
  \/ \E i \in 1..Len(users), confirmed \in BOOLEAN : HandleDelete(users[i], confirmed)
  \/ \E c \in InFlight, out \in DeleteOutcomes : HandleDeleteSettle(c, out)

SessionNext ==
  \/ \E i \in 1..Len(users) : OpenUserPosts(users[i])
  \/ ClosePosts
  \/ \E c \in InFlight, out \in NetOutcomes :
       \E data \in IF c.h = "loadPosts" THEN PostLists(c.userId) ELSE {<<>>} : LoadPostsSettle(c, out, data)

TabNext ==
  \/ ClickPostsTab
  \/ ClickAlbumsTab
  \/ \E c \in InFlight, out \in NetOutcomes :
       \E data \in IF c.h = "loadAlbums" THEN AlbumLists(c.userId) ELSE {<<>>} : LoadAlbumsListSettle(c, out, data)
  \/ \E c \in InFlight, i \in 1..2, out \in NetOutcomes, photos \in PhotoLists :
       \E parses \in IF out = "notok" THEN BOOLEAN ELSE {TRUE} :
         LoadAlbumsPhotoSettle(c, i, out, parses, photos)

PostFormNext ==
  \/ ShowPostForm
  \/ \E v \in TitleInputs : SetPostTitle(v)
  \/ \E v \in BodyInputs : SetPostBody(v)
  \/ CancelPostForm
  \/ CreatePost
  \/ \E c \in InFlight, out \in NetOutcomes, now \in Timestamps :
       \E created \in IF c.h = "createPost" THEN CreatedPosts(c.newPost) ELSE {<<>>} :
         CreatePostSettle(c, out, created, now)

\* the theme: the toggle, the system's colour scheme, a reload of the page
PageNext ==
  \/ ToggleDarkMode
  \/ \E b \in BOOLEAN : SystemPreference(b)
  \/ Reload

Next == ListNext(ServerUserLists) \/ FileNext \/ TypeNext \/ SubmitNext \/ EditNext \/ DeleteNext \/ SessionNext \/ TabNext \/ PostFormNext \/ PageNext

Spec == Init /\ [][Next]_vars

\* the users list and its maintenance: create, update, delete
UsersNext == ListNext(ServerUserLists) \/ TypeNext \/ SubmitNext \/ EditNext \/ DeleteNext
SpecUsers == Init /\ [][UsersNext]_vars

\* the avatar of the user form: picking, previewing and submitting a file
AvatarNext == ListNext({<<>>}) \/ FileNext \/ TypeNext \/ SubmitNext
SpecAvatar == Init /\ [][AvatarNext]_vars

\* the modal of one user and its two tabs
AlbumsNext == ListNext({<<U(1, "u")>>}) \/ SessionNext \/ TabNext \/ ShowPostForm
SpecAlbums == Init /\ [][AlbumsNext]_vars

\* the two forms: creating a user and creating a post for a listed user
FormsNext ==
  \/ ListNext({<<U(1, "u")>>})
  \/ TypeNext
  \/ \E now \in Timestamps : HandleSubmit(now)
  \/ \E c \in InFlight, out \in NetOutcomes : HandleSubmitSettle(c, out, U(2, "n"))
  \/ \E i \in 1..Len(users) : OpenUserPosts(users[i])
  \/ \E c \in InFlight, out \in NetOutcomes : LoadPostsSettle(c, out, <<>>)
  \/ ShowPostForm
  \/ \E v \in TitleInputs : SetPostTitle(v)
  \/ \E v \in BodyInputs : SetPostBody(v)
  \/ CreatePost
  \/ \E c \in InFlight, out \in NetOutcomes, now \in Timestamps :
       \E created \in IF c.h = "createPost" THEN CreatedPosts(c.newPost) ELSE {<<>>} :
         CreatePostSettle(c, out, created, now)
SpecForms == Init /\ [][FormsNext]_vars

\* the theme, next to the users list and its form
ThemeNext ==
  \/ PageNext
  \/ ListNext({<<U(1, "u")>>})
  \/ TypeNext
  \/ EditNext
SpecTheme == Init /\ [][ThemeNext]_vars

\* modal sessions on two listed users, one after the other; every user has
\* one album
SessionsNext ==
  \/ ListNext({<<U(1, "u"), U(2, "u")>>})
  \/ SessionNext
  \/ ClickPostsTab
  \/ ClickAlbumsTab
  \/ \E c \in InFlight, out \in NetOutcomes :
       \E data \in IF c.h = "loadAlbums" THEN {<<Album(1, c.userId)>>} ELSE {<<>>} :
         LoadAlbumsListSettle(c, out, data)
  \/ \E c \in InFlight, out \in NetOutcomes, photos \in PhotoLists :
       \E parses \in IF out = "notok" THEN BOOLEAN ELSE {TRUE} :
         LoadAlbumsPhotoSettle(c, 1, out, parses, photos)
  \/ ShowPostForm
SpecSessions == Init /\ [][SessionsNext]_vars

\* the first load of a collection of any length, with creates around it
LongListNext == ListNext(LongUserLists) \/ TypeNext \/ SubmitNext
SpecLongList == Init /\ [][LongListNext]_vars

\* every handler that raises a loading flag, on one listed user with one
\* album; the server answers an update with the record as it was
LoadingNext ==
  \/ ListNext({<<U(1, "u")>>})
  \/ \E i \in 1..Len(users) : StartEdit(users[i])
  \/ \E now \in Timestamps : HandleSubmit(now)
  \/ \E c \in InFlight, out \in NetOutcomes : HandleSubmitSettle(c, out, U(1, "u"))
  \/ \E i \in 1..Len(users) : HandleDelete(users[i], TRUE)
  \/ \E c \in InFlight, out \in DeleteOutcomes : HandleDeleteSettle(c, out)
  \/ \E i \in 1..Len(users) : OpenUserPosts(users[i])
  \/ \E c \in InFlight, out \in NetOutcomes : LoadPostsSettle(c, out, <<>>)
  \/ ClickAlbumsTab
  \/ \E c \in InFlight, out \in NetOutcomes : LoadAlbumsListSettle(c, out, <<Album(1, 1)>>)
  \/ \E c \in InFlight, out \in NetOutcomes, photos \in PhotoLists :
       \E parses \in IF out = "notok" THEN BOOLEAN ELSE {TRUE} :
         LoadAlbumsPhotoSettle(c, 1, out, parses, photos)
  \/ ShowPostForm
  \/ SetPostTitle(<<"t">>)
  \/ SetPostBody(<<"x">>)
  \/ CreatePost
  \/ \E c \in InFlight, out \in NetOutcomes, now \in Timestamps :
       \E created \in IF c.h = "createPost" THEN CreatedPosts(c.newPost) ELSE {<<>>} :
         CreatePostSettle(c, out, created, now)
SpecLoading == Init /\ [][LoadingNext]_vars

(***************************************************************************)
(* Properties.  A step is recognised by the handler it records in last';   *)
(* what it was given is read from the state it starts in.                  *)
(***************************************************************************)
Began(op) == last'.op = op /\ last'.out \in {"invalid", "sent"}
Settled(op, out) == last'.op = op /\ last'.out = out
Holds(h) == {c \in InFlight : c.h = h}

\* C1: in a modal session in which the albums tab is selected, exactly one
\* album-list fetch is issued, however often the tab is selected
C1_OneAlbumFetchPerSession ==
  /\ albumFetches <= 1
  /\ (selectedUser # <<>> /\ activeTab = "albums") => albumFetches = 1

\* C2: handleSubmit with a blank name or email, and createPost with a blank
\* title or body, set the error, start no call and leave users, posts and the
\* loading flags as they were
C2_ValidationSendsNothing ==
  [][ /\ (Began("handleSubmit") /\ (Trim(name) = <<>> \/ Trim(email) = <<>>)) =>
           /\ error' = "Name and email required"
           /\ calls' = calls
           /\ UNCHANGED <<users, posts, loadingUsers, loadingPosts, loadingAlbums, postLoading, formLoading>>
      /\ (Began("createPost") /\ (Trim(postTitle) = <<>> \/ Trim(postBody) = <<>>)) =>
           /\ error' = "Title and body are required"
           /\ calls' = calls
           /\ UNCHANGED <<users, posts, loadingUsers, loadingPosts, loadingAlbums, postLoading, formLoading>>
    ]_vars

C2_Witness ==
  /\ last.op = "createPost" /\ last.out = "invalid"
  /\ postTitle = <<" ">> /\ postBody = <<"x">>
  /\ error = "Title and body are required"
  /\ formLoading /\ Holds("handleSubmit") # {} /\ Holds("createPost") = {}

\* C3: processFile rejects a file that is no image, or is larger than 5 MB,
\* with its own message and without touching the preview, the stored file or
\* the reader; an image of exactly 5 MB is handed to the reader
C3_ProcessFileValidates ==
  [][ (last'.op = "processFile" /\ last'.val # <<>>) =>
        LET f == last'.val[1]
            image == Len(f.type) >= 6 /\ SubSeq(f.type, 1, 6) = <<"i", "m", "a", "g", "e", "/">>
        IN /\ ~image =>
                /\ error' = "Please select a valid image."
                /\ UNCHANGED <<avatarPreview, avatarFile, calls>>
           /\ (image /\ f.size > 5242880) =>
                /\ error' = "Image must be < 5 MB."
                /\ UNCHANGED <<avatarPreview, avatarFile, calls>>
           /\ (image /\ f.size = 5242880) =>
                /\ calls' = calls (+) SetToBag({[h |-> "FileReader", file |-> f, reqs |-> {}]})
                /\ UNCHANGED <<avatarPreview, avatarFile, error>>
    ]_vars

C3_Witness ==
  /\ last.op = "processFile" /\ last.val = <<File("big.png", PngType, 5242881)>>
  /\ error = "Image must be < 5 MB."
  /\ avatarPreview = <<"data:", "exact.png">>
  /\ avatarFile # <<>> /\ avatarFile[1].size = 5242880

\* C4: when a create succeeds, the record the server returned becomes the
\* first user and the users held before follow it in their order
C4_CreatedUserFirst ==
  [][ (Settled("handleSubmit", "ok") /\ \E c \in Holds("handleSubmit") : c.editId = 0) =>
        /\ Len(users') = Len(users) + 1
        /\ users'[1] = last'.val[1]
        /\ \A i \in 1..Len(users) : users'[i + 1] = users[i]
    ]_vars

\* a create that succeeded while loadUsers was still in flight, on a list
\* that already held a user
C4_Witness ==
  /\ last.op = "handleSubmit" /\ last.out = "ok"
  /\ Holds("loadUsers") # {} /\ loadingUsers
  /\ Len(users) = 2 /\ users[1] = last.val[1] /\ users[1] # users[2]

RECURSIVE Others(_, _)
Others(s, id) ==
  IF s = <<>> THEN <<>>
  ELSE IF Head(s).id = id THEN Others(Tail(s), id)
  ELSE <<Head(s)>> \o Others(Tail(s), id)

\* C5: when the DELETE request of handleDelete(id) succeeds, no user with
\* that id is left and every other user stays, in the same order
C5_DeletedUserGone ==
  [][ Settled("handleDelete", "ok") =>
        \A c \in Holds("handleDelete") :
          /\ \A i \in 1..Len(users') : users'[i].id # c.id
          /\ users' = Others(users, c.id)
    ]_vars

C5_Witness ==
  /\ last.op = "handleDelete" /\ last.out = "ok" /\ last.val = <<1>>
  /\ Len(users) = 2 /\ users[1] = U(2, "n") /\ users[2] = U(2, "u")

\* C6: right after closePosts no user is selected, posts and albums are
\* empty and the new-post form is hidden
C6_CloseClears ==
  [][ last'.op = "closePosts" =>
        selectedUser' = <<>> /\ posts' = <<>> /\ albums' = <<>> /\ ~showPostForm'
    ]_vars

\* closed while an album load of the session is still in flight
C6_Witness ==
  /\ last.op = "closePosts"
  /\ selectedUser = <<>> /\ posts = <<>> /\ albums = <<>> /\ ~showPostForm
  /\ \E c \in Holds("loadAlbums") : c.pc = "photos"
  /\ activeTab = "albums"

\* C7: every network call that fails, by a network failure or by a rejected
\* response, leaves a message in error
C7_FailureSetsError ==
  [][ last'.out \in {"neterr", "notok"} => error' # "" ]_vars

\* C9: when a photo fetch fails, loadAlbums stores nothing, reports
\* "Failed to load albums." and resets loadingAlbums
C9_PhotoFailureAborts ==
  [][ (last'.op = "loadAlbums.photo" /\ last'.out \in {"neterr", "notok", "threw"}) =>
        /\ albums' = albums
        /\ error' = "Failed to load albums."
        /\ ~loadingAlbums'
    ]_vars

\* C10, as claimed: no call has more than one request in flight
C10_OneRequestPerCall == \A c \in InFlight : Cardinality(c.reqs) <= 1

\* C10, amended: every call has one request in flight, except that loadAlbums,
\* once the album list has arrived, has at most one photo request per album of
\* that list in flight at the same time; no photo request is in flight before
C10_PhotosAfterList ==
  \A c \in InFlight :
    /\ c.h = "FileReader" => c.reqs = {}
    /\ c.h \notin {"loadAlbums", "FileReader"} => Cardinality(c.reqs) = 1
    /\ c.h = "loadAlbums" =>
         /\ c.pc = "list" => c.reqs = {[m |-> "GET", api |-> "ALBUMS", arg |-> c.userId]}
         /\ c.pc = "photos" =>
              /\ c.reqs # {}
              /\ \A r \in c.reqs :
                   r.api = "PHOTOS" /\ \E i \in 1..Len(c.albumsData) : c.albumsData[i].id = r.arg
              /\ Cardinality(c.reqs) <= Len(c.albumsData)

C10_Witness ==
  \E c \in Holds("loadAlbums") : c.pc = "photos" /\ Cardinality(c.reqs) = 2

\* the number of calls of the handlers hs that are in flight
Running(hs) == BagCardinality([c \in {d \in InFlight : d.h \in hs} |-> calls[c]])

\* C8: a loading flag is up only while a call of its handler is in flight, and
\* it is down as soon as a call of its handler has ended, whether the call
\* succeeded or failed; so every flag that is raised is lowered again once
\* the request has been answered
C8_FlagsReset ==
  /\ [](loadingUsers => Running({"loadUsers"}) > 0)
  /\ [](loadingPosts => Running({"loadPosts"}) > 0)
  /\ [](loadingAlbums => Running({"loadAlbums"}) > 0)
  /\ [](postLoading => Running({"createPost"}) > 0)
  /\ [](formLoading => Running({"handleSubmit", "handleDelete"}) > 0)
  /\ [][ /\ loadingUsers' => Running({"loadUsers"})' >= Running({"loadUsers"})
         /\ loadingPosts' => Running({"loadPosts"})' >= Running({"loadPosts"})
         /\ loadingAlbums' => Running({"loadAlbums"})' >= Running({"loadAlbums"})
         /\ postLoading' => Running({"createPost"})' >= Running({"createPost"})
         /\ formLoading' => Running({"handleSubmit", "handleDelete"})'
                              >= Running({"handleSubmit", "handleDelete"})
       ]_vars

\* a failed createPost has given the post form its controls back
C8_Witness ==
  /\ last.op = "createPost" /\ last.out = "neterr"
  /\ ~postLoading /\ showPostForm /\ error = "Failed to create post."
  /\ postTitle = <<"t">>

\* C11: when loadUsers succeeds, users is the first 9 records of the response
\* in the server's order, the whole response when it has fewer, and nothing
\* of the list held before is kept
C11_FirstNineShown ==
  [][ Settled("loadUsers", "ok") =>
        LET data == last'.val
        IN /\ Len(users') = (IF Len(data) < 9 THEN Len(data) ELSE 9)
           /\ \A i \in 1..Len(users') : users'[i] = data[i]
    ]_vars

\* eleven records answered, nine shown, while a create is still in flight
C11_Witness ==
  /\ last.op = "loadUsers" /\ last.out = "ok"
  /\ Len(last.val) = 11 /\ Len(users) = 9 /\ users[9] = U(9, "u")
  /\ Holds("handleSubmit") # {}

\* C12: when an update succeeds, each entry with the edited id is replaced by
\* the record the server returned, at its position; the length of the list
\* and every other entry stay as they were
C12_UpdatedInPlace ==
  [][ Settled("handleSubmit", "ok") =>
        \A c \in Holds("handleSubmit") :
          c.editId # 0 =>
            /\ Len(users') = Len(users)
            /\ \A i \in 1..Len(users) :
                 users'[i] = (IF users[i].id = c.editId THEN last'.val[1] ELSE users[i])
    ]_vars

\* the second of two users was updated; the first is as the server listed it
C12_Witness ==
  /\ last.op = "handleSubmit" /\ last.out = "ok"
  /\ last.val = <<U(2, "m")>>
  /\ users = <<U(1, "u"), U(2, "m")>>
  /\ editId = 0 /\ ~formLoading

\* C13: when createPost succeeds, one post is put in front of posts: the
\* server's response with its id replaced by the time read when the response
\* arrived; title and body are cleared, the form is hidden and the error is
\* cleared.  When createPost fails, posts, title, body and the form's
\* visibility stay as they were
C13_CreatedPostStamped ==
  [][ /\ Settled("createPost", "ok") =>
           LET created == last'.val[1]
           IN /\ Len(posts') = Len(posts) + 1
              /\ \A i \in 1..Len(posts) : posts'[i + 1] = posts[i]
              /\ DOMAIN posts'[1] = DOMAIN created
              /\ \A f \in DOMAIN created \ {"id"} : posts'[1][f] = created[f]
              /\ posts'[1].id \in Timestamps /\ posts'[1].id # created.id
              /\ postTitle' = <<>> /\ postBody' = <<>> /\ ~showPostForm' /\ error' = ""
      /\ (last'.op = "createPost" /\ last'.out \in {"neterr", "notok"}) =>
           /\ UNCHANGED <<posts, postTitle, postBody, showPostForm>>
           /\ error' = "Failed to create post."
    ]_vars

\* a second post created: the server called it 101, the list holds it as 9
C13_Witness ==
  /\ last.op = "createPost" /\ last.out = "ok"
  /\ last.val[1].id = 101
  /\ Len(posts) = 2 /\ posts[1].id = 9 /\ posts[1].title = <<"t">>
  /\ postTitle = <<>> /\ ~showPostForm

\* C14: openUserPosts(user) selects the user, empties posts and albums, hides
\* the post form, shows the posts tab, and starts one call, the posts fetch
\* for user.id; it starts no album fetch, whatever the session before left
C14_OpenStartsFresh ==
  [][ last'.op = "openUserPosts" =>
        LET user == last'.val[1]
        IN /\ selectedUser' = <<user>>
           /\ posts' = <<>> /\ albums' = <<>> /\ ~showPostForm' /\ activeTab' = "posts"
           /\ calls' = calls (+) SetToBag({[ h |-> "loadPosts", userId |-> user.id,
                                             reqs |-> {[m |-> "GET", api |-> "POSTS", arg |-> user.id]} ]})
    ]_vars

\* user 2 opened while the album load of the session on user 1 is in flight
C14_Witness ==
  /\ last.op = "openUserPosts" /\ last.val = <<U(2, "u")>>
  /\ posts = <<>> /\ albums = <<>> /\ activeTab = "posts"
  /\ \E c \in Holds("loadAlbums") : c.userId = 1
  /\ \E c \in Holds("loadPosts") : c.userId = 2
  /\ ~showPostForm

\* C15: posts and albums hold only records of the selected user, and are
\* empty while no user is selected
C15_ListsOfSelectedUser ==
  /\ selectedUser = <<>> => (posts = <<>> /\ albums = <<>>)
  /\ selectedUser # <<>> =>
       /\ \A i \in 1..Len(posts) : posts[i].userId = selectedUser[1].id
       /\ \A i \in 1..Len(albums) : albums[i].userId = selectedUser[1].id

\* C16: a handleSubmit whose request fails leaves users, name, email, the
\* avatar preview and editId as they were, reports "Operation failed." and
\* lowers formLoading; one whose request succeeds empties name, email and the
\* avatar preview, sets editId to null and clears the error
C16_FailedSubmitKeepsForm ==
  [][ /\ (last'.op = "handleSubmit" /\ last'.out \in {"neterr", "notok"}) =>
           /\ UNCHANGED <<users, name, email, avatarPreview, editId>>
           /\ error' = "Operation failed."
           /\ ~formLoading'
      /\ Settled("handleSubmit", "ok") =>
           /\ name' = <<>> /\ email' = <<>> /\ avatarPreview' = <<>> /\ editId' = 0
           /\ error' = ""
           /\ ~formLoading'
    ]_vars

\* an update of user 2 was rejected by the server: the form still holds it
C16_Witness ==
  /\ last.op = "handleSubmit" /\ last.out = "notok"
  /\ editId = 2 /\ name = <<"u">> /\ email = <<"e">> /\ avatarPreview # <<>>
  /\ users = <<U(1, "u"), U(2, "u")>>
  /\ error = "Operation failed." /\ ~formLoading

\* C17: at most one POST, PUT or DELETE on the users endpoint is in flight;
\* formLoading is up whenever one is; and while formLoading is up no further
\* one is started and the form is neither edited, cancelled nor retyped
C17_OneMutationInFlight ==
  /\ [](Running({"handleSubmit", "handleDelete"}) <= 1)
  /\ [](Running({"handleSubmit", "handleDelete"}) = 1 => formLoading)
  /\ [][ formLoading =>
           /\ Running({"handleSubmit", "handleDelete"})' <= Running({"handleSubmit", "handleDelete"})
           /\ ~Began("handleSubmit")
           /\ ~(last'.op = "handleDelete" /\ last'.out \in {"sent", "declined"})
           /\ UNCHANGED <<editId, name, email>> \/ Settled("handleSubmit", "ok")
       ]_vars

\* a create is in flight next to the first loadUsers, the form locked
C17_Witness ==
  /\ formLoading
  /\ Holds("handleSubmit") # {} /\ Holds("loadUsers") # {}
  /\ \A c \in Holds("handleSubmit") : c.reqs = {[m |-> "POST", api |-> "USERS", arg |-> 0]}
  /\ last.op = "handleSubmit" /\ last.out = "sent"

\* C18: once the user has chosen a theme with the toggle, the stored item and
\* the theme shown are that choice, also after the page has been loaded again
\* and whatever colour scheme the system prefers
C18_ThemeSurvivesReload ==
  chosen # "none" => (stored = chosen /\ darkMode = (chosen = "true"))

====
